---- MODULE Spec2Model ----
(***************************************************************************)
(* Clementine: the tool-approval protocol of the terminal assistant.       *)
(*                                                                         *)
(* The model follows the modular CLI: the App component, and the hooks     *)
(* useConversation, useToolApproval and useInputHandling.                  *)
(*                                                                         *)
(* React state is kept in two layers.  The state variables hold the value  *)
(* every queued setState has produced (all updates of the code are either  *)
(* absolute or functional, so that value is well defined).  `rendered`     *)
(* holds the values the subscribed key handler and the handleSubmit it     *)
(* reaches through onSubmitRef have closed over: the state as of the last  *)
(* render whose effects have run.  Render is its own step, so a key may    *)
(* arrive before the handlers have been replaced.                          *)
(*                                                                         *)
(* Strings are sequences of tokens (a typed character is one token), so    *)
(* that trim() and template concatenation are computed, not assumed.       *)
(***************************************************************************)
EXTENDS Integers, Sequences, FiniteSets, TLC

\* ---------------------------------------------------------------- bounds
MaxSubmits == 2     \* accepted submissions
MaxSteps == 2       \* generation steps that report tool calls
MaxInputLen == 1    \* length of the input buffer
MaxStaleKeys == 1   \* keys that arrive before the handlers have been replaced

\* The bounds are explored in three slices: several turns of one reporting
\* step with keys on outdated handlers, one turn of several reporting steps,
\* and several turns whose inputs differ.
Quotas ==
    {[submits |-> MaxSubmits, steps |-> 1, staleKeys |-> MaxStaleKeys, chars |-> {"a"}],
     [submits |-> 1, steps |-> MaxSteps, staleKeys |-> 0, chars |-> {"a"}],
     [submits |-> MaxSubmits, steps |-> 1, staleKeys |-> 0, chars |-> {"a", "b"}]}

\* ---------------------------------------------------------------- data
\* tools = await agent.getTools()
Registry == {"readFileTool", "shellTool"}

\* the printable keys the user types
KeyChars == {"a", "b"}

Whitespace == {" ", "\r"}

\* response.text of a generation call
Texts == {<<"ok">>}

\* values a failing generation call or tool may throw
Thrown == {[isError |-> TRUE, message |-> <<"boom">>]}

\* results a tool may return
ToolResults == {<<"result">>}

RECURSIVE TrimStart(_)
TrimStart(s) ==
    IF s # << >> /\ Head(s) \in Whitespace THEN TrimStart(Tail(s)) ELSE s

RECURSIVE TrimEnd(_)
TrimEnd(s) ==
    IF s # << >> /\ s[Len(s)] \in Whitespace
    THEN TrimEnd(SubSeq(s, 1, Len(s) - 1))
    ELSE s

\* String.prototype.trim
Trim(s) == TrimEnd(TrimStart(s))

\* a || b on strings
OrElse(a, b) == IF a = << >> THEN b ELSE a

\* error instanceof Error ? error.message : "Unknown error"
ErrorMessage(e) == IF e.isError THEN e.message ELSE <<"Unknown error">>

createWelcomeMessage ==
    [type |-> "assistant",
     content |-> <<"Hello ", "User", "! I'm Clementine, your AI assistant. How can I help you today?">>]

createErrorMessage(e) ==
    [type |-> "error", content |-> <<"Error: ">> \o ErrorMessage(e)]

Deflection == <<"I understand. Let me know if there's another way I can help.">>

\* the tool calls one generation step may report; editTool is a name the
\* registry does not hold
Batches ==
    {<<"readFileTool">>, <<"shellTool", "readFileTool">>, <<"editTool", "readFileTool">>}

MapDelete(m, k) == [x \in DOMAIN m \ {k} |-> m[x]]

RECURSIVE MapDeleteAll(_, _)
MapDeleteAll(m, ks) ==
    IF ks = << >> THEN m ELSE MapDeleteAll(MapDelete(m, Head(ks)), Tail(ks))

\* ---------------------------------------------------------------- state
VARIABLES
    messages,             \* useConversation: Message[]
    conversationHistory,  \* useConversation: ConversationMessage[]
    isLoading,            \* App
    pendingToolCalls,     \* useToolApproval: PendingToolCall[]
    input,                \* useInputHandling: the input buffer
    inputUtilities,       \* App: {getCurrentInput, clearInput} or null
    rendered,             \* what the subscribed handlers have closed over
    pendingCallbacks,     \* module-level Map callId -> callback
    currentInputRef,      \* useToolApproval: currentInputRef.current
    turns,                \* activations of handleSubmit
    approvals,            \* activations of handleApproval
    issued,               \* history: the callIds generated, in order
    invoked,              \* history: how often each callback was called
    terminalCount,        \* history: per turn, the final messages appended
    exited,               \* process.exit has been called
    staleKeys,            \* history: the keys handled by outdated handlers
    quota,                \* the slice of the bounds a behaviour explores
    run                   \* a run of a tool approval workflow

app == <<messages, conversationHistory, isLoading, pendingToolCalls, input,
         inputUtilities, rendered, pendingCallbacks, currentInputRef, turns,
         approvals, issued, invoked, terminalCount>>

vars == <<app, exited, staleKeys, quota, run>>

history == <<issued, invoked, terminalCount>>

Init ==
    /\ messages = <<createWelcomeMessage>>
    /\ conversationHistory = << >>
    /\ isLoading = FALSE
    /\ pendingToolCalls = << >>
    /\ input = << >>
    /\ inputUtilities = [ready |-> TRUE, input |-> << >>]
    /\ rendered = [isLoading |-> FALSE, pendingToolCalls |-> << >>,
                   conversationHistory |-> << >>,
                   inputUtilities |-> [ready |-> FALSE, input |-> << >>]]
    /\ pendingCallbacks = << >>
    /\ currentInputRef = << >>
    /\ turns = << >>
    /\ approvals = << >>
    /\ issued = << >>
    /\ invoked = << >>
    /\ terminalCount = << >>
    /\ exited = FALSE
    /\ staleKeys = 0
    /\ quota \in Quotas
    /\ run = [status |-> "none"]   \* the CLI starts no workflow run

\* ------------------------------------------------------ useConversation
\* A faulty variant of addMessage that sets the list instead of extending it;
\* C15_AppendOnly tells it from the code.
addMessage_Set(msgs, message) == <<message>>

addMessage(msgs, message) == Append(msgs, message)

\* A faulty variant of addConversationEntry that keeps the newest entry only;
\* C36_HistoryMirrorsMessages tells it from the code.
addConversationEntry_Newest(hist, entry) == <<entry>>

addConversationEntry(hist, entry) == Append(hist, entry)

addUserMessage(content) ==
    /\ messages' = addMessage(messages, [type |-> "user", content |-> content])
    /\ conversationHistory' =
           addConversationEntry(conversationHistory, [role |-> "user", content |-> content])

addAssistantMessage(content) ==
    /\ messages' = addMessage(messages, [type |-> "assistant", content |-> content])
    /\ conversationHistory' =
           addConversationEntry(conversationHistory, [role |-> "assistant", content |-> content])

\* --------------------------------------------------------------- render
\* The closures a render of App creates from the current state.
Closures ==
    [isLoading |-> isLoading,
     pendingToolCalls |-> pendingToolCalls,
     conversationHistory |-> conversationHistory,
     inputUtilities |-> inputUtilities]

\* The subscribed handlers are older than the state.
Stale == <<rendered, inputUtilities>> # <<Closures, [ready |-> TRUE, input |-> input]>>

\* A render of App with its effects: the handlers are replaced by closures
\* over the current state, and the effect that publishes getCurrentInput
\* queues the next value of inputUtilities.
Render ==
    /\ ~exited
    /\ Stale
    /\ rendered' = Closures
    /\ inputUtilities' = [ready |-> TRUE, input |-> input]
    /\ UNCHANGED <<messages, conversationHistory, isLoading, pendingToolCalls,
                   input, pendingCallbacks, currentInputRef, turns, approvals,
                   history, exited, staleKeys, quota, run>>

\* the turn a batch belongs to, for the history only
TurnOf(calls) == issued[calls[1].callId].turn

\* the generation steps that have reported tool calls
StepsSoFar == IF issued = << >> THEN 0 ELSE issued[Len(issued)].step

\* Renders are scheduled ahead of the completion of generation calls and
\* tools: a promise settles on an up-to-date screen, in a process that has
\* not exited.
Scheduled == ~exited /\ ~Stale /\ UNCHANGED <<exited, staleKeys, quota, run>>

Credit(t) == terminalCount' = [terminalCount EXCEPT ![t] = @ + 1]

\* --------------------------------------------------------- handleSubmit
\* The options object of a generation call.  No call site passes maxSteps:
\* the field is the set of the values given, which is empty.
GenerateOptions(ctx, stepCallback) ==
    [context |-> ctx, onStepFinish |-> stepCallback, maxSteps |-> {}]

\* The guard of handleSubmit, on the values its closure holds.
SubmitRejected ==
    \/ ~rendered.inputUtilities.ready
    \/ Trim(rendered.inputUtilities.input) = << >>
    \/ rendered.isLoading
    \/ Len(rendered.pendingToolCalls) > 0

\* handleSubmit up to its first await (agent.getTools()).
handleSubmit ==
    IF SubmitRejected
    THEN UNCHANGED app
    ELSE LET currentInput == Trim(rendered.inputUtilities.input) IN
         /\ Len(turns) < quota.submits
         /\ addUserMessage(currentInput)
         /\ currentInputRef' = currentInput
         /\ input' = << >>
         /\ isLoading' = TRUE
         /\ turns' = Append(turns, [pc |-> "getTools",
                                    currentInput |-> currentInput,
                                    context |-> rendered.conversationHistory,
                                    toolCallsToApprove |-> << >>,
                                    prompts |-> << >>,
                                    options |-> << >>,
                                    failures |-> 0])
         /\ terminalCount' = Append(terminalCount, 0)
         /\ UNCHANGED <<pendingToolCalls, inputUtilities, rendered,
                        pendingCallbacks, approvals, issued, invoked>>

\* the callIds of a batch, in order
CallIds(calls) == [i \in 1..Len(calls) |-> calls[i].callId]

\* agent.getTools() settles: handleSubmit goes on to call agent.generate,
\* or the outer catch reports the error.
GetToolsSettles(t) ==
    /\ Scheduled
    /\ turns[t].pc = "getTools"
    /\ \/ /\ turns' = [turns EXCEPT ![t].pc = "generate",
                                   ![t].prompts = <<turns[t].currentInput>>,
                                   ![t].options = <<GenerateOptions(turns[t].context, TRUE)>>]
          /\ UNCHANGED <<messages, conversationHistory, isLoading, terminalCount>>
       \/ \E e \in Thrown :
          /\ turns' = [turns EXCEPT ![t].pc = "done"]
          /\ messages' = addMessage(messages, createErrorMessage(e))
          /\ isLoading' = FALSE
          /\ Credit(t)
          /\ UNCHANGED conversationHistory
    /\ UNCHANGED <<pendingToolCalls, input, inputUtilities, rendered,
                   pendingCallbacks, currentInputRef, approvals, issued, invoked>>

IsReadFile(call) == call.toolName = "readFileTool"

\* A faulty variant of NewCalls that asks approval for file reads only;
\* C24_AlwaysApproval tells it from the code.
NewCalls_ReadFileOnly(names) ==
    SelectSeq([i \in 1..Len(names) |->
                  [toolName |-> names[i], callId |-> Len(issued) + i]],
              IsReadFile)

\* The pending calls one step adds: a fresh callId per tool call.
NewCalls(names) ==
    [i \in 1..Len(names) |-> [toolName |-> names[i], callId |-> Len(issued) + i]]

\* pendingCallbacks.set(callId, callback); a callback is the tool call its
\* closure holds
storePendingCallback(table, callId, callback) ==
    [c \in DOMAIN table \cup {callId} |-> IF c = callId THEN callback ELSE table[c]]

\* the for loop of onStepFinish over the table
RECURSIVE StoreAll(_, _)
StoreAll(table, calls) ==
    IF calls = << >> THEN table
    ELSE StoreAll(storePendingCallback(table, Head(calls).callId,
                                       [toolName |-> Head(calls).toolName]),
                  Tail(calls))

\* addPendingToolCall for every call of the step
addPendingToolCall(pending, calls) == pending \o calls

\* onStepFinish of the initial generation call, for a step that reports
\* tool calls (a step without tool calls changes nothing).
StepFinish(t, names) ==
    /\ Scheduled
    /\ turns[t].pc = "generate"
    /\ StepsSoFar < quota.steps
    /\ LET calls == NewCalls(names) IN
       /\ pendingCallbacks' = StoreAll(pendingCallbacks, calls)
       /\ pendingToolCalls' = addPendingToolCall(pendingToolCalls, calls)
       /\ turns' = [turns EXCEPT ![t].toolCallsToApprove = @ \o calls]
       /\ issued' = issued \o [i \in 1..Len(names) |->
                                  [toolName |-> names[i], turn |-> t,
                                   step |-> StepsSoFar + 1]]
       /\ invoked' = invoked \o [i \in 1..Len(names) |-> 0]
    /\ UNCHANGED <<messages, conversationHistory, isLoading, input,
                   inputUtilities, rendered, currentInputRef, approvals,
                   terminalCount>>

\* `Your previous tool call failed ...` of the inner catch
ErrorPrompt(e, currentInput) ==
    <<"Your previous tool call failed with this error: ">> \o ErrorMessage(e)
    \o <<"\n\nPlease retry the user's original request: \"">> \o currentInput
    \o <<"\" by calling the tool again with corrected parameters.">>

\* The initial agent.generate settles.
GenerateSettles(t) ==
    /\ Scheduled
    /\ turns[t].pc = "generate"
    /\ \/ \E text \in Texts :
          /\ turns' = [turns EXCEPT ![t].pc = "done"]
          /\ IF turns[t].toolCallsToApprove = << >>
             THEN /\ addAssistantMessage(
                        OrElse(text, <<"I'm sorry, I couldn't generate a response.">>))
                  /\ isLoading' = FALSE
                  /\ Credit(t)
             ELSE UNCHANGED <<messages, conversationHistory, isLoading, terminalCount>>
       \/ \E e \in Thrown :
          /\ turns' = [turns EXCEPT ![t].pc = "retry",
                                   ![t].prompts = Append(@, ErrorPrompt(e, turns[t].currentInput)),
                                   ![t].options = Append(@, GenerateOptions(turns[t].context, FALSE)),
                                   ![t].failures = @ + 1]
          /\ UNCHANGED <<messages, conversationHistory, isLoading, terminalCount>>
    /\ UNCHANGED <<pendingToolCalls, input, inputUtilities, rendered,
                   pendingCallbacks, currentInputRef, approvals, issued, invoked>>

\* The retry agent.generate of the inner catch settles.
RetrySettles(t) ==
    /\ Scheduled
    /\ turns[t].pc = "retry"
    /\ \/ \E text \in Texts :
          /\ turns' = [turns EXCEPT ![t].pc = "done"]
          /\ addAssistantMessage(OrElse(text, <<"Let me correct that and try again.">>))
       \/ /\ turns' = [turns EXCEPT ![t].pc = "done", ![t].failures = @ + 1]
          /\ messages' = addMessage(messages, createErrorMessage(
                 [isError |-> FALSE,
                  message |-> <<"I encountered an error. Please try rephrasing your request.">>]))
          /\ UNCHANGED conversationHistory
    /\ isLoading' = FALSE
    /\ Credit(t)
    /\ UNCHANGED <<pendingToolCalls, input, inputUtilities, rendered,
                   pendingCallbacks, currentInputRef, approvals, issued, invoked>>

\* ------------------------------------------------------- handleApproval
\* A faulty variant of onApprovalComplete that leaves isLoading as it is;
\* C34_EventuallyIdle tells it from the code.
onApprovalComplete_KeepLoading(content) ==
    /\ addAssistantMessage(content)
    /\ UNCHANGED isLoading

\* onApprovalComplete: the success and the error callback of handleApproval
onApprovalComplete(content) ==
    /\ addAssistantMessage(content)
    /\ isLoading' = FALSE

clearPendingToolCalls == pendingToolCalls' = << >>

\* A faulty variant of StartMember that passes over a tool the registry does
\* not hold instead of throwing; C27_MissingToolFails tells it from the code.
StartMember_SkipMissing(call) ==
    IF call.callId \in DOMAIN pendingCallbacks
    THEN IF pendingCallbacks[call.callId].toolName \in Registry
         THEN [state |-> "running", value |-> << >>]
         ELSE [state |-> "ok", value |-> << >>]
    ELSE [state |-> "failed", value |-> <<"No callback found">>]

\* One member of toolPromises up to its first await: the callback is looked
\* up and called; a callback whose tool is not in the registry throws at
\* once, a call without a callback fails at once.
StartMember(call) ==
    IF call.callId \in DOMAIN pendingCallbacks
    THEN IF pendingCallbacks[call.callId].toolName \in Registry
         THEN [state |-> "running", value |-> << >>]
         ELSE [state |-> "failed",
               value |-> <<"Tool '", pendingCallbacks[call.callId].toolName, "' not found">>]
    ELSE [state |-> "failed", value |-> <<"No callback found">>]

\* A faulty variant of Called that calls the callback of the first member
\* only; C20_WholeBatch tells it from the code.
Called_FirstOnly(calls) == {calls[1].callId} \cap DOMAIN pendingCallbacks

\* the callIds whose callback a batch calls
Called(calls) ==
    {calls[i].callId : i \in 1..Len(calls)} \cap DOMAIN pendingCallbacks

\* A faulty variant of Invocations that calls the callbacks whatever the
\* decision is; C2_OnlyOnApprove tells it from the code.
Invocations_AnyDecision(approve, calls) == Called(calls)

\* the callbacks handleApproval calls: those of the batch, on approve only
Invocations(approve, calls) == IF approve THEN Called(calls) ELSE {}

\* the callbacks that threw before their first await are deleted in the
\* catch of their member
RECURSIVE DeleteThrown(_, _)
DeleteThrown(table, calls) ==
    IF calls = << >> THEN table
    ELSE DeleteThrown(
            IF /\ Head(calls).callId \in DOMAIN table
               /\ table[Head(calls).callId].toolName \notin Registry
            THEN MapDelete(table, Head(calls).callId)
            ELSE table,
            Tail(calls))

\* handleApproval up to its first await (Promise.all), or to its end on
\* reject.
handleApproval(approve, currentPendingCalls, history_) ==
    IF Len(currentPendingCalls) = 0
    THEN UNCHANGED app
    ELSE /\ clearPendingToolCalls
         /\ invoked' = [c \in DOMAIN invoked |->
                           IF c \in Invocations(approve, currentPendingCalls)
                           THEN invoked[c] + 1 ELSE invoked[c]]
         /\ IF approve
            THEN /\ pendingCallbacks' = DeleteThrown(pendingCallbacks, currentPendingCalls)
                 /\ approvals' = Append(approvals,
                        [approve |-> TRUE, pc |-> "tools",
                         calls |-> currentPendingCalls,
                         context |-> history_,
                         prompts |-> << >>,
                         options |-> << >>,
                         failures |-> 0,
                         results |-> [i \in 1..Len(currentPendingCalls) |->
                                         StartMember(currentPendingCalls[i])]])
                 /\ UNCHANGED <<messages, conversationHistory, isLoading, terminalCount>>
            ELSE /\ onApprovalComplete(Deflection)
                 /\ pendingCallbacks' =
                        MapDeleteAll(pendingCallbacks, CallIds(currentPendingCalls))
                 /\ approvals' = Append(approvals,
                        [approve |-> FALSE, pc |-> "done",
                         calls |-> currentPendingCalls,
                         context |-> history_,
                         prompts |-> << >>,
                         options |-> << >>,
                         failures |-> 0,
                         results |-> << >>])
                 /\ Credit(TurnOf(currentPendingCalls))
         /\ UNCHANGED <<input, inputUtilities, rendered, currentInputRef, turns,
                        issued>>

handleApprovalWrapper(approve) ==
    handleApproval(approve, rendered.pendingToolCalls, rendered.conversationHistory)

\* The callback of member i settles: the tool returns or throws, and the
\* member deletes its callId.
ToolSettles(a, i) ==
    /\ Scheduled
    /\ approvals[a].pc = "tools"
    /\ approvals[a].results[i].state = "running"
    /\ \/ \E r \in ToolResults :
          approvals' = [approvals EXCEPT ![a].results[i] =
                           [state |-> "ok", value |-> r]]
       \/ \E e \in Thrown :
          approvals' = [approvals EXCEPT ![a].results[i] =
                           [state |-> "failed", value |-> ErrorMessage(e)]]
    /\ pendingCallbacks' = MapDelete(pendingCallbacks, approvals[a].calls[i].callId)
    /\ UNCHANGED <<messages, conversationHistory, isLoading, pendingToolCalls,
                   input, inputUtilities, rendered, currentInputRef, turns,
                   history>>

RECURSIVE Join(_, _)
Join(parts, sep) ==
    IF parts = << >> THEN << >>
    ELSE IF Len(parts) = 1 THEN parts[1]
    ELSE parts[1] \o sep \o Join(Tail(parts), sep)

\* A faulty variant of AllResults that lists the results last call first;
\* C38_BatchOrder tells it from the code.
AllResults_Reversed(ap) ==
    [i \in 1..Len(ap.calls) |->
        [toolName |-> ap.calls[Len(ap.calls) + 1 - i].toolName,
         success |-> ap.results[Len(ap.calls) + 1 - i].state = "ok",
         value |-> ap.results[Len(ap.calls) + 1 - i].value]]

\* allResults of an approval: the results with their tool names
AllResults(ap) ==
    [i \in 1..Len(ap.calls) |->
        [toolName |-> ap.calls[i].toolName,
         success |-> ap.results[i].state = "ok",
         value |-> ap.results[i].value]]

IsFailed(r) == ~r.success

IsSuccess(r) == r.success

\* A faulty variant of BatchFailed that gives a batch up only when every
\* member failed; C6_FailedBatchStops tells it from the code.
BatchFailed_EveryMember(allResults) ==
    Len(SelectSeq(allResults, IsFailed)) = Len(allResults)

\* failedTools.length > 0
BatchFailed(allResults) == Len(SelectSeq(allResults, IsFailed)) > 0

\* `Tools failed: name (error), ...`
FailureSummary(failedTools) ==
    <<"Tools failed: ">>
    \o Join([i \in 1..Len(failedTools) |->
                <<failedTools[i].toolName, " (">> \o failedTools[i].value \o <<")">>],
            <<", ">>)

\* JSON.stringify(result, null, 2)
Stringify(v) == <<"json:">> \o v

\* the follow-up prompt of a batch whose members all succeeded
ContextPrompt(toolResults) ==
    <<"The user asked: \"">> \o Trim(currentInputRef)
    \o <<"\"\n\nTool results:\n">>
    \o Join([i \in 1..Len(toolResults) |->
                <<"Tool ", toolResults[i].toolName, " result: ">>
                \o Stringify(toolResults[i].value)],
            <<"\n">>)
    \o <<"\n\nPlease provide a helpful response based on these results.">>

\* A faulty variant of PromiseAll that settles with the first member;
\* C25_JoinAfterAll tells it from the code.
PromiseAll_Race(results) ==
    \E i \in 1..Len(results) : results[i].state # "running"

\* Promise.all(toolPromises) settles when every member has (no member
\* rejects: each catches its own error)
PromiseAll(results) ==
    \A i \in 1..Len(results) : results[i].state # "running"

\* Promise.all has settled: the batch failed, or the follow-up generation
\* call is made.
ApprovalJoin(a) ==
    /\ Scheduled
    /\ approvals[a].pc = "tools"
    /\ PromiseAll(approvals[a].results)
    /\ LET failedTools == SelectSeq(AllResults(approvals[a]), IsFailed)
           toolResults == SelectSeq(AllResults(approvals[a]), IsSuccess)
       IN IF BatchFailed(AllResults(approvals[a]))
          THEN /\ onApprovalComplete(FailureSummary(failedTools))
               /\ approvals' = [approvals EXCEPT ![a].pc = "done"]
               /\ Credit(TurnOf(approvals[a].calls))
          ELSE /\ approvals' = [approvals EXCEPT ![a].pc = "generate",
                                   ![a].prompts = <<ContextPrompt(toolResults)>>,
                                   ![a].options = <<GenerateOptions(approvals[a].context, FALSE)>>]
               /\ UNCHANGED <<messages, conversationHistory, isLoading, terminalCount>>
    /\ UNCHANGED <<pendingToolCalls, input, inputUtilities, rendered,
                   pendingCallbacks, currentInputRef, turns, issued, invoked>>

\* what the follow-up agent.generate may return: a text, with or without
\* tool calls in the response (the call is given no onStepFinish)
FollowUpResponses ==
    {[text |-> text, toolCalls |-> calls] :
        text \in Texts, calls \in {<< >>} \cup Batches}

\* The follow-up agent.generate settles.
ApprovalGenerateSettles(a) ==
    /\ Scheduled
    /\ approvals[a].pc = "generate"
    /\ \/ \E response \in FollowUpResponses :
          /\ approvals' = [approvals EXCEPT ![a].pc = "done"]
          /\ onApprovalComplete(
                OrElse(response.text, <<"I've processed your request.">>))
       \/ \E e \in Thrown :
          /\ approvals' = [approvals EXCEPT ![a].pc = "done", ![a].failures = @ + 1]
          /\ onApprovalComplete(ErrorMessage(e))
    /\ pendingCallbacks' = MapDeleteAll(pendingCallbacks, CallIds(approvals[a].calls))
    /\ Credit(TurnOf(approvals[a].calls))
    /\ UNCHANGED <<pendingToolCalls, input, inputUtilities, rendered,
                   currentInputRef, turns, issued, invoked>>

\* ------------------------------------------------------- handleKeyPress
Keys ==
    {[name |-> "return", input |-> "\r", ctrl |-> FALSE],
     [name |-> "escape", input |-> "", ctrl |-> FALSE],
     [name |-> "backspace", input |-> "", ctrl |-> FALSE],
     [name |-> "y", input |-> "y", ctrl |-> FALSE],
     [name |-> "n", input |-> "n", ctrl |-> FALSE],
     [name |-> "c", input |-> "c", ctrl |-> TRUE]}
    \cup {[name |-> c, input |-> c, ctrl |-> FALSE] : c \in KeyChars}

\* process.exit(0)
processExit == exited' = TRUE /\ UNCHANGED app

setInput(value) ==
    /\ input' = value
    /\ UNCHANGED <<messages, conversationHistory, isLoading, pendingToolCalls,
                   inputUtilities, rendered, pendingCallbacks, currentInputRef,
                   turns, approvals, history>>

handleKeyPress(key) ==
    IF Len(rendered.pendingToolCalls) > 0
    THEN /\ IF key.name = "return" \/ key.input = "y"
            THEN handleApprovalWrapper(TRUE)
            ELSE IF key.name = "escape" \/ key.input = "n"
            THEN handleApprovalWrapper(FALSE)
            ELSE UNCHANGED app
         /\ UNCHANGED exited
    ELSE IF key.name = "return" /\ ~rendered.isLoading
         THEN handleSubmit /\ UNCHANGED exited
         ELSE IF key.name = "backspace"
         THEN setInput(SubSeq(input, 1, Len(input) - 1)) /\ UNCHANGED exited
         ELSE IF key.ctrl /\ key.input = "c"
         THEN processExit
         ELSE IF key.input # ""
         THEN /\ Len(input) < MaxInputLen
              /\ setInput(Append(input, key.input))
              /\ UNCHANGED exited
         ELSE UNCHANGED <<app, exited>>

\* The keys the user presses: the letters y and n stand for themselves only
\* at the approval prompt; elsewhere any printable key is one of KeyChars.
KeyPress ==
    \E key \in Keys :
        /\ ~exited
        /\ key.name \in {"y", "n"} => Len(rendered.pendingToolCalls) > 0
        /\ key.name \in KeyChars => key.name \in quota.chars
        /\ handleKeyPress(key)
        /\ IF Stale
           THEN staleKeys < quota.staleKeys /\ staleKeys' = staleKeys + 1
           ELSE UNCHANGED staleKeys
        /\ UNCHANGED <<quota, run>>

Next ==
    \/ Render
    \/ KeyPress
    \/ \E t \in 1..Len(turns) : GetToolsSettles(t)
    \/ \E t \in 1..Len(turns) : \E names \in Batches : StepFinish(t, names)
    \/ \E t \in 1..Len(turns) : GenerateSettles(t)
    \/ \E t \in 1..Len(turns) : RetrySettles(t)
    \/ \E a \in 1..Len(approvals) : \E i \in 1..Len(approvals[a].calls) :
          ToolSettles(a, i)
    \/ \E a \in 1..Len(approvals) : ApprovalJoin(a)
    \/ \E a \in 1..Len(approvals) : ApprovalGenerateSettles(a)

Spec == Init /\ [][Next]_vars

\* ------------------------------------------------------------- fairness
\* The session under the scheduling the runtime gives it: a pending render
\* is carried out, every promise the session awaits settles (getTools, the
\* generation calls, the tool callbacks, Promise.all), and the user decides
\* on a batch the prompt shows.  How many steps a generation call reports is
\* left to the agent, and no other key is ever required to be pressed.

\* the slices of the bounds the fair behaviours explore
LiveQuotas ==
    {[submits |-> 1, steps |-> MaxSteps, staleKeys |-> 0, chars |-> {"a"}],
     [submits |-> 1, steps |-> 1, staleKeys |-> MaxStaleKeys, chars |-> {"a"}]}

LiveInit == Init /\ quota \in LiveQuotas

\* the user presses approve or reject at the approval prompt
Decide == KeyPress /\ Len(approvals') > Len(approvals)

\* an awaited promise settles
Settles ==
    \/ \E t \in 1..Len(turns) : GetToolsSettles(t)
    \/ \E t \in 1..Len(turns) : GenerateSettles(t)
    \/ \E t \in 1..Len(turns) : RetrySettles(t)
    \/ \E a \in 1..Len(approvals) : \E i \in 1..Len(approvals[a].calls) :
          ToolSettles(a, i)
    \/ \E a \in 1..Len(approvals) : ApprovalJoin(a)
    \/ \E a \in 1..Len(approvals) : ApprovalGenerateSettles(a)

\* Each promise settles once and each batch is decided on a bounded number
\* of times, so fairness on their disjunction is fairness on each of them.
Fairness ==
    /\ WF_vars(Render)
    /\ SF_vars(Decide \/ Settles)

LiveSpec == LiveInit /\ [][Next]_vars /\ Fairness

\* ============================================== tool approval workflows
\* The two tool approval workflows of approvalWorkflow.ts: approvalWorkflow
\* (approvalPromptStep, then toolExecutionStep) and toolApprovalWorkflow
\* (handleApprovalStep, then executeToolStep).  A run is started with a tool
\* request, suspends, and is resumed with a decision.

MaxResumes == 2     \* the resumes of one run

Workflows == {"tool-approval-workflow", "toolApprovalWorkflow"}

\* export default { readFileTool: requireApproval(readFileTool) }: the
\* registry the workflows import, by key; the tool it holds is the wrapper
\* of the tool whose id is `original`
WorkflowTools ==
    [key \in {"readFileTool"} |->
        [id |-> "readFile-with-approval", original |-> "readFile"]]

\* the ids of the tools requireApproval and toolWrapper are applied to
OriginalIds == {"readFile"}

\* the tool ids a run is started with: the id of a wrapped tool, a key of
\* the registry, and a name the registry does not know
ToolIds == OriginalIds \cup {"readFileTool", "shell"}

\* the arguments of a tool request: what the tool's schema accepts, the same
\* with a key the schema does not know, and what it rejects
ToolArgs == {<<"path">>, <<"path", "extra">>, <<"nopath">>}

\* tool.inputSchema.parse: unknown keys are stripped, a request without the
\* required key throws a ZodError
SchemaAccepts(toolArgs) == Head(toolArgs) = "path"

Parse(toolArgs) == <<Head(toolArgs)>>

ZodMessage(toolArgs) == <<"Required">>

\* what a value thrown by a tool may be: an Error, or something else
WorkflowThrown == Thrown \cup {[isError |-> FALSE, message |-> << >>]}

\* an output of a tool execution step; a field that is not set is empty
Output(approved, toolId, result, error, reason, message) ==
    [approved |-> approved, toolId |-> toolId, result |-> result,
     error |-> error, reason |-> reason, message |-> message]

\* approvalPromptStep.execute: `approve` is resumeData?.approve, and the
\* step suspends whenever it is not true
approvalPromptStep(inputData, resumeData) ==
    LET approve == {r.decision : r \in resumeData} IN
    [suspended |-> approve # {TRUE},
     output |-> [toolId |-> inputData.toolId, toolArgs |-> inputData.toolArgs,
                 approved |-> approve = {TRUE}]]

\* handleApprovalStep.execute: the step suspends when there is no resumeData
handleApprovalStep(inputData, resumeData) ==
    IF resumeData = {}
    THEN [suspended |-> TRUE,
          output |-> [toolId |-> inputData.toolId, toolArgs |-> inputData.toolArgs,
                      approved |-> FALSE]]
    ELSE [suspended |-> FALSE,
          output |-> [toolId |-> inputData.toolId, toolArgs |-> inputData.toolArgs,
                      approved |-> \A r \in resumeData : r.decision]]

\* the first step of a workflow
PromptStep(workflow, inputData, resumeData) ==
    IF workflow = "tool-approval-workflow"
    THEN approvalPromptStep(inputData, resumeData)
    ELSE handleApprovalStep(inputData, resumeData)

\* Object.keys(tools).join(", ")
KeysJoined == Join([i \in 1..1 |-> <<"readFileTool">>], <<", ">>)

\* toolExecutionStep.execute up to tool.execute: the output it returns
\* without running a tool, or the context it runs the tool with
toolExecutionStep(inputData) ==
    IF ~inputData.approved
    THEN [done |-> TRUE,
          output |-> Output(FALSE, inputData.toolId, {}, {},
                            {<<"User denied the tool execution">>}, {})]
    ELSE IF inputData.toolId \notin DOMAIN WorkflowTools
    THEN [done |-> TRUE,
          output |-> Output(TRUE, inputData.toolId, {},
                            {<<"Tool '", inputData.toolId,
                               "' not found in available tools: ">> \o KeysJoined},
                            {}, {})]
    ELSE IF ~SchemaAccepts(inputData.toolArgs)
    THEN [done |-> TRUE,
          output |-> Output(TRUE, inputData.toolId, {},
                            {<<"Invalid arguments for tool '", inputData.toolId, "': ">>
                             \o ZodMessage(inputData.toolArgs)},
                            {}, {})]
    ELSE [done |-> FALSE, context |-> Parse(inputData.toolArgs)]

\* executeToolStep.execute up to tool.execute
executeToolStep(inputData) ==
    IF ~inputData.approved
    THEN [done |-> TRUE,
          output |-> Output(FALSE, inputData.toolId, {}, {}, {},
                            {<<"User denied tool use">>})]
    ELSE IF inputData.toolId \notin DOMAIN WorkflowTools
    THEN [done |-> TRUE,
          output |-> Output(TRUE, inputData.toolId, {}, {}, {},
                            {<<"Tool ", inputData.toolId, " not found">>})]
    ELSE [done |-> FALSE, context |-> inputData.toolArgs]

ExecutionStep(workflow, inputData) ==
    IF workflow = "tool-approval-workflow"
    THEN toolExecutionStep(inputData)
    ELSE executeToolStep(inputData)

\* the error message of the outer catch of toolExecutionStep
CaughtMessage(e) == IF e.isError THEN e.message ELSE <<"Unknown error occurred">>

\* The workflow goes on from its first step: the run suspends, or the second
\* step runs up to tool.execute.
Advance(prompt, decisions) ==
    IF prompt.suspended
    THEN run' = [run EXCEPT !.status = "suspended", !.decisions = decisions]
    ELSE LET step == ExecutionStep(run.workflow, prompt.output) IN
         IF step.done
         THEN run' = [run EXCEPT !.status = "success", !.decisions = decisions,
                                 !.output = {step.output}]
         ELSE run' = [run EXCEPT !.status = "executing", !.decisions = decisions,
                                 !.executed = Append(@,
                                     [tool |-> WorkflowTools[prompt.output.toolId].id,
                                      context |-> step.context])]

\* run.start({ inputData }): the first step runs without resumeData
WfStart ==
    /\ run.status = "created"
    /\ Advance(PromptStep(run.workflow, run.inputData, {}), << >>)
    /\ UNCHANGED <<app, exited, staleKeys, quota>>

\* run.resume({ resumeData }): the suspended step runs again with the
\* decision
WfResume(decision) ==
    /\ run.status = "suspended"
    /\ Len(run.decisions) < MaxResumes
    /\ Advance(PromptStep(run.workflow, run.inputData, {[decision |-> decision]}),
               Append(run.decisions, decision))
    /\ UNCHANGED <<app, exited, staleKeys, quota>>

\* tool.execute returns
WfToolReturns(result) ==
    /\ run.status = "executing"
    /\ run' = [run EXCEPT !.status = "success",
                          !.output = {Output(TRUE, run.inputData.toolId, {result},
                                             {}, {}, {})}]
    /\ UNCHANGED <<app, exited, staleKeys, quota>>

\* tool.execute throws: toolExecutionStep catches the value, executeToolStep
\* lets it through
WfToolThrows(e) ==
    /\ run.status = "executing"
    /\ IF run.workflow = "tool-approval-workflow"
       THEN run' = [run EXCEPT !.status = "success", !.thrown = {e},
                               !.output = {Output(TRUE, run.inputData.toolId, {},
                                                  {CaughtMessage(e)}, {}, {})}]
       ELSE run' = [run EXCEPT !.status = "failed", !.thrown = {e}]
    /\ UNCHANGED <<app, exited, staleKeys, quota>>

\* A run is created for a tool request: by requireApproval or toolWrapper for
\* the tool they wrap (toolId: originalTool.id), or by a caller of the
\* workflow.
WfInit ==
    /\ messages = <<createWelcomeMessage>>
    /\ conversationHistory = << >>
    /\ isLoading = FALSE
    /\ pendingToolCalls = << >>
    /\ input = << >>
    /\ inputUtilities = [ready |-> TRUE, input |-> << >>]
    /\ rendered = [isLoading |-> FALSE, pendingToolCalls |-> << >>,
                   conversationHistory |-> << >>,
                   inputUtilities |-> [ready |-> FALSE, input |-> << >>]]
    /\ pendingCallbacks = << >>
    /\ currentInputRef = << >>
    /\ turns = << >>
    /\ approvals = << >>
    /\ issued = << >>
    /\ invoked = << >>
    /\ terminalCount = << >>
    /\ exited = FALSE
    /\ staleKeys = 0
    /\ quota = [submits |-> 0, steps |-> 0, staleKeys |-> 0, chars |-> {}]
    /\ \E workflow \in Workflows, wrapper \in BOOLEAN, toolId \in ToolIds,
          toolArgs \in ToolArgs :
          /\ wrapper => toolId \in OriginalIds
          /\ run = [status |-> "created", workflow |-> workflow,
                    wrapper |-> wrapper,
                    inputData |-> [toolId |-> toolId, toolArgs |-> toolArgs],
                    decisions |-> << >>, executed |-> << >>,
                    output |-> {}, thrown |-> {}]

WfNext ==
    \/ WfStart
    \/ \E decision \in BOOLEAN : WfResume(decision)
    \/ \E result \in ToolResults : WfToolReturns(result)
    \/ \E e \in WorkflowThrown : WfToolThrows(e)

WorkflowSpec == WfInit /\ [][WfNext]_vars

\* ================================================================ claims
\* the turn a batch belongs to has calls waiting for a decision
AwaitingApproval(t) ==
    \E i \in 1..Len(pendingToolCalls) : issued[pendingToolCalls[i].callId].turn = t

\* a decision on a batch of the turn is still being carried out
Resolving(t) ==
    \E a \in 1..Len(approvals) :
        approvals[a].pc # "done" /\ TurnOf(approvals[a].calls) = t

\* the turn is neither generating, nor awaiting approval, nor resolving
TurnOver(t) ==
    turns[t].pc = "done" /\ ~AwaitingApproval(t) /\ ~Resolving(t)

\* the callIds of a batch, as a set
IdsOf(calls) == {calls[i].callId : i \in 1..Len(calls)}

\* the approve decisions taken on a batch that contains callId c
ApproveDecisions(c) ==
    {a \in 1..Len(approvals) :
        approvals[a].approve /\ c \in IdsOf(approvals[a].calls)}

\* the decisions taken on a batch that contains callId c
Decisions(c) ==
    {a \in 1..Len(approvals) : c \in IdsOf(approvals[a].calls)}

\* C1: the callback of every callId is invoked at most once, whatever the
\* interleaving of approve and reject keys with the running approval.
C1_AtMostOnce == \A c \in 1..Len(invoked) : invoked[c] <= 1

\* C2: a callback is invoked only as a consequence of an approve decision on
\* the batch that contains it: every invocation is accounted for by one
\* approve decision on its batch, none happens before a decision, and a
\* callId whose first decision is a reject is never invoked.
C2_OnlyOnApprove ==
    \A c \in 1..Len(invoked) :
        /\ invoked[c] <= Cardinality(ApproveDecisions(c))
        /\ Decisions(c) = {} => invoked[c] = 0
        /\ (\E a \in Decisions(c) :
                /\ ~approvals[a].approve
                /\ \A b \in Decisions(c) : a <= b) => invoked[c] = 0

\* a batch of two calls was rejected and none of its callbacks ran, while the
\* deflection was shown
C2_Witness ==
    \E a \in 1..Len(approvals) :
        /\ ~approvals[a].approve
        /\ Len(approvals[a].calls) = 2
        /\ \A i \in 1..2 : invoked[approvals[a].calls[i].callId] = 0
        /\ \E m \in 1..Len(messages) : messages[m].content = Deflection

\* C3: every accepted submission ends with exactly one terminal message:
\* never more than one per turn, and one once the turn is over.
C3_ExactlyOneTerminal ==
    \A t \in 1..Len(turns) :
        /\ terminalCount[t] <= 1
        /\ TurnOver(t) => terminalCount[t] = 1

\* C4: pendingToolCalls is empty at the moment a submission is accepted and
\* whenever isLoading goes back to false.
C4_PendingEmptyAtTurnBounds ==
    [][/\ Len(turns') > Len(turns) => pendingToolCalls = << >>
       /\ (isLoading /\ ~isLoading') => pendingToolCalls' = << >>]_vars

\* C5: once a turn has ended (its generation is finished and its terminal
\* message is shown) the callback table holds no entry for any of its callIds.
C5_TableReleased ==
    \A c \in DOMAIN pendingCallbacks :
        ~(/\ turns[issued[c].turn].pc = "done"
          /\ terminalCount[issued[c].turn] >= 1)

\* the members of an approval that failed
FailedOf(ap) == SelectSeq(AllResults(ap), IsFailed)

\* C6: an approved batch with a failed member makes no follow-up generation
\* call, feeds no result back to the model, and ends with the message that
\* names the failed tools.
C6_FailedBatchStops ==
    \A a \in 1..Len(approvals) :
        (/\ approvals[a].approve
         /\ \E i \in 1..Len(approvals[a].calls) :
                approvals[a].results[i].state = "failed")
        => /\ approvals[a].pc # "generate"
           /\ approvals[a].prompts = << >>
           /\ approvals[a].pc = "done" =>
                 \E m \in 1..Len(messages) :
                    messages[m].content = FailureSummary(FailedOf(approvals[a]))

\* an approved batch of two ended with one member failed and one succeeded
C6_Witness ==
    \E a \in 1..Len(approvals) :
        /\ approvals[a].approve
        /\ approvals[a].pc = "done"
        /\ Len(approvals[a].calls) = 2
        /\ \E i, j \in 1..2 :
              /\ approvals[a].results[i].state = "failed"
              /\ approvals[a].results[j].state = "ok"
        /\ \E m \in 1..Len(messages) :
              messages[m].content = FailureSummary(FailedOf(approvals[a]))

\* C7: the message that reports failed tools has type error, and nothing is
\* appended to the conversation history for it.
C7_FailureIsError ==
    \A a \in 1..Len(approvals) :
        (approvals[a].approve /\ approvals[a].pc = "done"
            /\ FailedOf(approvals[a]) # << >>)
        => /\ \A m \in 1..Len(messages) :
                 messages[m].content = FailureSummary(FailedOf(approvals[a]))
                 => messages[m].type = "error"
           /\ \A h \in 1..Len(conversationHistory) :
                 conversationHistory[h].content
                    # FailureSummary(FailedOf(approvals[a]))

\* the batch has had a decision already
Resolved(calls) ==
    \E a \in 1..Len(approvals) : approvals[a].calls = calls

\* C8: an approve or a reject on a batch that has been resolved already is a
\* no-op: no message, no callback, no generation call.
C8_SecondDecisionNoOp ==
    [][\A approve \in BOOLEAN :
          (Resolved(rendered.pendingToolCalls) /\ handleApprovalWrapper(approve))
          => /\ messages' = messages
             /\ invoked' = invoked
             /\ approvals' = approvals]_vars

\* C9: submit while isLoading, while calls are pending, or with an empty
\* trimmed input leaves messages, conversationHistory, isLoading,
\* pendingToolCalls and the callback table alone and starts no turn.
C9_SubmitNoOp ==
    [][(/\ handleSubmit
        /\ (isLoading \/ pendingToolCalls # << >> \/ Trim(input) = << >>))
       => UNCHANGED <<messages, conversationHistory, isLoading,
                      pendingToolCalls, pendingCallbacks, turns>>]_vars

\* C10: at most one turn is in flight: no turn is generating while an
\* earlier turn is still generating, awaiting approval or resolving.
C10_OneTurnInFlight ==
    \A t1, t2 \in 1..Len(turns) :
        (t1 < t2 /\ turns[t2].pc # "done") => TurnOver(t1)

\* a reject decision has been taken on a batch of the turn
RejectedTurn(t) ==
    \E a \in 1..Len(approvals) :
        ~approvals[a].approve /\ TurnOf(approvals[a].calls) = t

\* the generation calls made for a turn: those of handleSubmit and those of
\* the approvals of its batches
PromptsOf(t) ==
    <<turns[t].prompts,
      {<<a, approvals[a].prompts>> :
          a \in {b \in 1..Len(approvals) :
                    /\ approvals[b].prompts # << >>
                    /\ TurnOf(approvals[b].calls) = t}}>>

\* C11: a reject appends the deflection verbatim as an assistant message and
\* releases the callIds of the batch; once a turn has been rejected no
\* generation call is made for it and no other final message is appended.
C11_RejectEndsTurn ==
    [][/\ (handleApprovalWrapper(FALSE) /\ Len(approvals') > Len(approvals))
          => /\ messages' = Append(messages,
                                   [type |-> "assistant", content |-> Deflection])
             /\ IdsOf(rendered.pendingToolCalls) \cap DOMAIN pendingCallbacks' = {}
       /\ \A t \in 1..Len(turns) :
             RejectedTurn(t) => /\ PromptsOf(t)' = PromptsOf(t)
                                /\ terminalCount'[t] = terminalCount[t]]_vars

\* the approved batches of a turn that succeeded: their follow-up generation
\* call has been made
FollowUps(t) ==
    {a \in 1..Len(approvals) :
        /\ approvals[a].approve
        /\ approvals[a].prompts # << >>
        /\ TurnOf(approvals[a].calls) = t}

\* C12: when an approved batch succeeds, the one follow-up generation call is
\* the last generation call of the turn and its output the last final message
\* of the turn; when it settles, nothing is added to pendingToolCalls or to
\* the callback table, whatever tool calls its response carries.
C12_OneFollowUp ==
    [][/\ \A t \in 1..Len(turns) :
             /\ FollowUps(t) # {} => PromptsOf(t)' = PromptsOf(t)
             /\ (\E a \in FollowUps(t) : approvals[a].pc = "done")
                   => terminalCount'[t] = terminalCount[t]
       /\ \A a \in 1..Len(approvals) :
             ApprovalGenerateSettles(a)
             => /\ pendingToolCalls' = pendingToolCalls
                /\ DOMAIN pendingCallbacks' \subseteq DOMAIN pendingCallbacks]_vars

\* an error-typed message reports a thrown value
ErrorShown ==
    \E e \in Thrown : \E m \in 1..Len(messages) :
        messages[m] = createErrorMessage(e)

\* C13: a generation call that fails, initial or follow-up, ends its turn with
\* an error-typed message and is the last generation call made for it.
C13_GenerationFailureEndsTurn ==
    /\ \A t \in 1..Len(turns) :
          turns[t].failures >= 1
          => /\ turns[t].pc = "done"
             /\ Len(turns[t].prompts) = 1
             /\ ErrorShown
    /\ \A a \in 1..Len(approvals) :
          approvals[a].failures >= 1
          => /\ approvals[a].pc = "done"
             /\ Len(approvals[a].prompts) = 1
             /\ ErrorShown

\* a step that ends the handling of an error: of agent.getTools, of the
\* initial generation call (the retry settles), of a tool of the batch, or
\* of the follow-up generation call
ErrorHandled ==
    \/ \E t \in 1..Len(turns) :
          \/ RetrySettles(t)
          \/ GetToolsSettles(t) /\ turns'[t].pc = "done"
    \/ \E a \in 1..Len(approvals) :
          \/ ApprovalJoin(a) /\ approvals'[a].pc = "done"
          \/ ApprovalGenerateSettles(a) /\ approvals'[a].failures = 1

\* C14: after any error the session is idle: isLoading is false and
\* pendingToolCalls is empty.
C14_IdleAfterError ==
    [][ErrorHandled => (~isLoading' /\ pendingToolCalls' = << >>)]_vars

IsPrefix(s, t) == Len(s) <= Len(t) /\ SubSeq(t, 1, Len(s)) = s

\* C15: messages and conversationHistory are append-only: every step leaves
\* what they held in place and in order, and only adds at the end.
C15_AppendOnly ==
    [][/\ IsPrefix(messages, messages')
       /\ IsPrefix(conversationHistory, conversationHistory')]_vars

\* after a submission, a reject and an error report the welcome message is
\* still the first message
C15_Witness ==
    /\ Len(messages) >= 4
    /\ messages[1] = createWelcomeMessage
    /\ messages[2].type = "user"
    /\ \E m \in 1..Len(messages) : messages[m].content = Deflection
    /\ \E m \in 1..Len(messages) : messages[m].type = "error"
    /\ Len(conversationHistory) >= 2

\* the keys that are neither an approve signal (Enter, y) nor a reject
\* signal (Escape, n)
UnrelatedKeys == {key \in Keys : key.name \notin {"return", "escape", "y", "n"}}

\* C16: while a batch is awaiting approval, a key that is neither an approve
\* nor a reject signal leaves pendingToolCalls, the callback table, the
\* messages and the input buffer unchanged.
C16_UnrelatedKeyNoOp ==
    [][\A key \in UnrelatedKeys :
          (pendingToolCalls # << >> /\ handleKeyPress(key))
          => UNCHANGED <<pendingToolCalls, pendingCallbacks, messages, input>>]_vars

\* C17: the context of the follow-up generation call of a turn is the
\* history snapshot that was passed to the initial generation call of that
\* turn.
C17_SameSnapshot ==
    \A a \in 1..Len(approvals) :
        (approvals[a].approve /\ approvals[a].prompts # << >>)
        => approvals[a].context = turns[TurnOf(approvals[a].calls)].context

\* the calls are exactly the tool calls one generation step reported
OneStep(calls) ==
    calls # << >> =>
        \E c \in IdsOf(calls) :
            IdsOf(calls) = {d \in 1..Len(issued) :
                               /\ issued[d].turn = issued[c].turn
                               /\ issued[d].step = issued[c].step}

\* C18: the batch that awaits approval, the batch the prompt presents and
\* the batch of every decision are exactly the tool calls of one generation
\* step.
C18_BatchIsOneStep ==
    /\ OneStep(pendingToolCalls)
    /\ OneStep(rendered.pendingToolCalls)
    /\ \A a \in 1..Len(approvals) : OneStep(approvals[a].calls)

\* C19: no generation step of a turn reports while a batch of that turn is
\* still awaiting the decision of the user.
C19_LoopSuspended ==
    [][\A t \in 1..Len(turns) : \A names \in Batches :
          StepFinish(t, names) => ~AwaitingApproval(t)]_vars

\* approval a is the first decision on callId c
FirstDecision(a, c) == \A b \in Decisions(c) : a <= b

PlainCompletion(t) ==
    /\ GenerateSettles(t)
    /\ turns[t].toolCallsToApprove = << >>
    /\ turns'[t].pc = "done"

\* turn t is generating and no step of it has reported tool calls so far
PlainSoFar(t) ==
    turns[t].pc \in {"getTools", "generate"} /\ turns[t].toolCallsToApprove = << >>

\* C21: when the generation call of a submission completes and no step has
\* reported tool calls, exactly one assistant message is appended and it is
\* the only final message of the turn, isLoading returns to false, and during
\* the turn no call is pending and the turn stores no callback.
C21_PlainAnswer ==
    /\ [](\A t \in 1..Len(turns) : PlainSoFar(t) =>
              /\ pendingToolCalls = << >>
              /\ \A c \in DOMAIN pendingCallbacks : issued[c].turn # t)
    /\ [][\A t \in 1..Len(turns) : PlainCompletion(t) =>
              /\ Len(messages') = Len(messages) + 1
              /\ messages'[Len(messages')].type = "assistant"
              /\ conversationHistory'[Len(conversationHistory')].role = "assistant"
              /\ terminalCount'[t] = 1
              /\ ~isLoading'
              /\ pendingToolCalls' = << >>
              /\ pendingCallbacks' = pendingCallbacks]_vars

\* the key event of Ctrl-C
CtrlC == [name |-> "c", input |-> "c", ctrl |-> TRUE]

StepBudget == 5

\* the options of the generation calls made so far
OptionsGiven ==
    UNION ({{turns[t].options[i] : i \in 1..Len(turns[t].options)} :
               t \in 1..Len(turns)}
           \cup {{approvals[a].options[i] : i \in 1..Len(approvals[a].options)} :
                    a \in 1..Len(approvals)})

\* C23: every generation call of a turn (the initial call, the retry and the
\* follow-up) is given a step budget of 5, and no turn performs more than 5
\* steps that report tool calls.
C23_StepBudget ==
    /\ \A o \in OptionsGiven : o.maxSteps = {StepBudget}
    /\ \A c \in 1..Len(issued) : issued[c].step <= StepBudget

\* the tools whose calls always require approval
ApprovalRequired == {"readFileTool", "shellTool"}

\* C24: whenever a generation step reports a call to readFileTool or to
\* shellTool, the call is placed in the pending batch with a stored callback
\* and is not run by that step; a callback has run only if an approve
\* decision was taken on a batch that contains its call.
C24_AlwaysApproval ==
    /\ [](\A c \in 1..Len(invoked) :
             (issued[c].toolName \in ApprovalRequired /\ invoked[c] > 0)
             => ApproveDecisions(c) # {})
    /\ [][\A t \in 1..Len(turns) : \A names \in Batches :
             StepFinish(t, names) =>
                 \A i \in 1..Len(names) :
                     names[i] \in ApprovalRequired =>
                         LET c == Len(issued) + i IN
                         /\ \E k \in 1..Len(pendingToolCalls') :
                                pendingToolCalls'[k] = [toolName |-> names[i], callId |-> c]
                         /\ c \in DOMAIN pendingCallbacks'
                         /\ pendingCallbacks'[c].toolName = names[i]
                         /\ invoked'[c] = 0]_vars

\* a step reported a shellTool call and a readFileTool call, both were
\* queued, the batch was approved and each callback ran
C24_Witness ==
    \E a \in 1..Len(approvals) :
        /\ approvals[a].approve
        /\ Len(approvals[a].calls) = 2
        /\ approvals[a].calls[1].toolName = "shellTool"
        /\ approvals[a].calls[2].toolName = "readFileTool"
        /\ \A i \in 1..2 : invoked[approvals[a].calls[i].callId] = 1

\* the members of an approval whose callback is still running
Running(ap) == {i \in 1..Len(ap.results) : ap.results[i].state = "running"}

\* approval a is taken in this step, as an approve
Approved(a) == Len(approvals) = a - 1 /\ Len(approvals') = a /\ approvals'[a].approve

\* C25: the callbacks of an approved batch are all started by the approve
\* step, before any of them completes; while one of them is running the
\* batch is not joined and no follow-up generation call is made; the step
\* that joins the batch finds every callback completed or failed, in
\* whatever order they completed, and makes the follow-up call or appends
\* the batch-failed message.
C25_JoinAfterAll ==
    /\ [](\A a \in 1..Len(approvals) :
             approvals[a].approve =>
                 /\ approvals[a].pc # "tools" => Running(approvals[a]) = {}
                 /\ Running(approvals[a]) # {} => approvals[a].prompts = << >>)
    /\ [][\A a \in 1..Len(approvals') :
             /\ Approved(a) =>
                    \A i \in 1..Len(approvals'[a].calls) :
                        (/\ approvals'[a].calls[i].callId \in DOMAIN pendingCallbacks
                         /\ approvals'[a].calls[i].toolName \in Registry)
                        => i \in Running(approvals'[a])
             /\ (a <= Len(approvals) /\ approvals[a].pc = "tools"
                 /\ approvals'[a].pc # "tools")
                => /\ Running(approvals[a]) = {}
                   /\ approvals'[a].results = approvals[a].results
                   /\ \/ approvals'[a].prompts # << >>
                      \/ messages' = Append(messages,
                             [type |-> "assistant",
                              content |-> FailureSummary(FailedOf(approvals[a]))])]_vars

\* both callbacks of a batch of two were started, the second has completed
\* while the first is still running, and the batch is not joined: no
\* follow-up generation call has been made
C25_Witness ==
    \E a \in 1..Len(approvals) :
        /\ approvals[a].approve
        /\ Len(approvals[a].calls) = 2
        /\ approvals[a].results[1].state = "running"
        /\ approvals[a].results[2].state = "ok"
        /\ invoked[approvals[a].calls[1].callId] = 1
        /\ invoked[approvals[a].calls[2].callId] = 1
        /\ approvals[a].pc = "tools"
        /\ approvals[a].prompts = << >>

\* a decision is taken in this step
Decided == Len(approvals') = Len(approvals) + 1

\* C26: the step that takes an approve or reject decision clears
\* pendingToolCalls, and nothing of the outcome precedes it (no callback of
\* the batch has run, no follow-up call is made, no outcome message is there
\* before the decision); once a decision is taken on a batch, a further
\* approve or reject key does not run its callbacks again.
C26_ClearedFirst ==
    [][/\ Decided =>
             /\ pendingToolCalls' = << >>
             /\ approvals'[Len(approvals')].prompts = << >>
             /\ \A c \in IdsOf(approvals'[Len(approvals')].calls) :
                    invoked[c] = 0
       /\ \A c \in 1..Len(invoked) :
             Decisions(c) # {} => invoked'[c] = invoked[c]]_vars

\* the members of a batch whose callback names a tool the registry does not
\* hold
Missing(calls) ==
    {i \in 1..Len(calls) :
        /\ calls[i].callId \in DOMAIN pendingCallbacks
        /\ pendingCallbacks[calls[i].callId].toolName \notin Registry}

\* the members of an approval that failed because their tool was not found
NotFound(ap) ==
    {i \in 1..Len(ap.results) :
        ap.results[i] = [state |-> "failed",
                         value |-> <<"Tool '", ap.calls[i].toolName, "' not found">>]}

Mentions(content, word) == \E k \in 1..Len(content) : content[k] = word

\* C27: when a batch is approved and the tool of one of its callbacks is not
\* in the registry, that member is a failed member with the not-found error
\* while the other callbacks are started and joined as usual; the batch then
\* ends with the failure summary, which names that tool, without a follow-up
\* generation call, and the handler's catch is not entered.
C27_MissingToolFails ==
    [][\A a \in 1..Len(approvals') :
          /\ Approved(a) =>
                 /\ Missing(approvals'[a].calls) \subseteq NotFound(approvals'[a])
                 /\ \A i \in 1..Len(approvals'[a].calls) :
                        (/\ approvals'[a].calls[i].callId \in DOMAIN pendingCallbacks
                         /\ i \notin Missing(approvals'[a].calls))
                        => i \in Running(approvals'[a])
          /\ (a <= Len(approvals) /\ NotFound(approvals[a]) # {}) =>
                 /\ approvals'[a].prompts = << >>
                 /\ approvals'[a].failures = 0
                 /\ (approvals[a].pc = "tools" /\ approvals'[a].pc # "tools") =>
                        /\ Running(approvals[a]) = {}
                        /\ approvals'[a].pc = "done"
                        /\ Len(messages') = Len(messages) + 1
                        /\ messages'[Len(messages')].content =
                               FailureSummary(FailedOf(approvals[a]))
                        /\ \A i \in NotFound(approvals[a]) :
                               Mentions(messages'[Len(messages')].content,
                                        approvals[a].calls[i].toolName)]_vars

\* a batch of editTool and readFileTool was approved: editTool was not found,
\* readFileTool ran and returned, and the batch ended with the failure
\* summary that names editTool
C27_Witness ==
    \E a \in 1..Len(approvals) :
        /\ approvals[a].approve
        /\ approvals[a].pc = "done"
        /\ Len(approvals[a].calls) = 2
        /\ NotFound(approvals[a]) = {1}
        /\ approvals[a].results[2].state = "ok"
        /\ invoked[approvals[a].calls[2].callId] = 1
        /\ approvals[a].prompts = << >>
        /\ messages[Len(messages)].content =
               <<"Tools failed: ", "editTool", " (", "Tool '", "editTool", "' not found", ")">>

\* approval a is joined in this step
Joined(a) == approvals[a].pc = "tools" /\ approvals'[a].pc # "tools"

\* C28: when an approved batch of two calls is joined and one of its members
\* has failed, the message appended for the batch mentions the tool names of
\* both members.
C28_SummaryNamesBoth ==
    [][\A a \in 1..Len(approvals) :
          (/\ Joined(a)
           /\ Len(approvals[a].calls) = 2
           /\ Len(FailedOf(approvals[a])) = 1)
          => /\ Len(messages') = Len(messages) + 1
             /\ \A i \in 1..2 :
                    Mentions(messages'[Len(messages')].content,
                             approvals[a].calls[i].toolName)]_vars

\* the follow-up prompt the specification describes for an approval: the
\* text submitted for the turn of the batch, and one result entry per call
FollowUpPromptOf(ap) ==
    <<"The user asked: \"">> \o turns[TurnOf(ap.calls)].currentInput
    \o <<"\"\n\nTool results:\n">>
    \o Join([i \in 1..Len(ap.calls) |->
                <<"Tool ", ap.calls[i].toolName, " result: ">>
                \o Stringify(ap.results[i].value)],
            <<"\n">>)
    \o <<"\n\nPlease provide a helpful response based on these results.">>

\* C29: the follow-up prompt made when an approved batch is joined with all
\* members successful holds the text submitted for the turn of that batch
\* (whatever the input buffer or a later submission holds by then) and one
\* result entry per call of the batch, in batch order.
C29_FollowUpPrompt ==
    [][\A a \in 1..Len(approvals) :
          (Joined(a) /\ approvals'[a].pc = "generate")
          => approvals'[a].prompts = <<FollowUpPromptOf(approvals[a])>>]_vars

\* The prompt the conversation workflow builds from a history and an input:
\* one `role: content` line per entry, newline-joined, and a last line
\* `user: <input>`.
fullPrompt(hist, userInput) ==
    (IF Len(hist) > 0
     THEN Join([i \in 1..Len(hist) |-> <<hist[i].role, ": ">> \o hist[i].content],
               <<"\n">>) \o <<"\n">>
     ELSE << >>)
    \o <<"user: ">> \o userInput

\* C30: the prompt of the initial generation call of a turn is the history
\* snapshot of the turn rendered as `role: content` lines, newline-joined,
\* followed by the line `user: <input>`; with an empty history it is
\* `user: <input>` alone.
C30_InitialPrompt ==
    \A t \in 1..Len(turns) :
        turns[t].prompts # << >> =>
            /\ turns[t].prompts[1] = fullPrompt(turns[t].context, turns[t].currentInput)
            /\ turns[t].context = << >> =>
                   turns[t].prompts[1] = <<"user: ">> \o turns[t].currentInput

\* ---------------------------------------------------------------- C31
\* what a run's last decision was
Denied == run.decisions # << >> /\ ~run.decisions[Len(run.decisions)]

HasWord(content, word) == \E i \in 1..Len(content) : content[i] = word

\* C31: the tool execution step of an approval workflow never throws, and
\* each failure is an error value of its own kind: a request that was not
\* approved ends with a denial reason and no tool was executed; a tool id the
\* registry does not know ends with a not-found error; arguments the tool's
\* schema rejects end with an "Invalid arguments" error and the tool was not
\* executed; a tool that threw an Error ends with that Error's message.
C31_StepReportsFailures ==
    /\ run.status # "failed"
    /\ run.status = "executing" => SchemaAccepts(run.inputData.toolArgs)
    /\ run.status = "success" =>
        \A o \in run.output :
            /\ Denied =>
                /\ ~o.approved
                /\ o.reason \cup o.message # {}
                /\ run.executed = << >>
            /\ (~Denied /\ run.inputData.toolId \notin DOMAIN WorkflowTools) =>
                /\ \E m \in o.error \cup o.message :
                       HasWord(m, "' not found in available tools: ")
                       \/ HasWord(m, " not found")
                /\ run.executed = << >>
            /\ (~Denied /\ run.inputData.toolId \in DOMAIN WorkflowTools
                        /\ ~SchemaAccepts(run.inputData.toolArgs)) =>
                /\ \E m \in o.error : Head(m) = "Invalid arguments for tool '"
                /\ run.executed = << >>
            /\ \A e \in run.thrown : e.isError => o.error = {e.message}

\* ---------------------------------------------------------------- C32
\* C32: the approval step suspends only while the run has been given no
\* decision; a run resumed with a decision is not suspended again, and a run
\* resumed with a rejection has ended with the denial result of the tool
\* execution step (approved false, the denial text), no tool executed.
C32_ResumeCompletes ==
    /\ run.status = "suspended" => run.decisions = << >>
    /\ Denied =>
        /\ run.status = "success"
        /\ run.executed = << >>
        /\ run.output # {}
        /\ \A o \in run.output :
               /\ ~o.approved
               /\ \/ o.reason = {<<"User denied the tool execution">>}
                  \/ o.message = {<<"User denied tool use">>}
    /\ (run.decisions # << >> /\ ~Denied /\ run.status = "success") =>
        \A o \in run.output : o.approved

\* ---------------------------------------------------------------- C33
\* a run that requireApproval created for the tool it wraps, resumed with an
\* approval, the arguments being what the tool's schema accepts
ApprovedWrapperRun ==
    /\ run.status # "none"
    /\ run.wrapper
    /\ run.workflow = "tool-approval-workflow"
    /\ run.decisions # << >>
    /\ ~Denied
    /\ SchemaAccepts(run.inputData.toolArgs)

\* C33: an approved run for a tool wrapped by requireApproval finds the
\* original tool under the tool id it was given, executes that tool once
\* with the validated arguments, and ends with the tool's result.
C33_OriginalExecuted ==
    ApprovedWrapperRun =>
        /\ run.inputData.toolId \in DOMAIN WorkflowTools
        /\ run.status \in {"executing", "success"}
        /\ run.executed = <<[tool |-> run.inputData.toolId,
                             context |-> Parse(run.inputData.toolArgs)]>>
        /\ (run.status = "success" /\ run.thrown = {}) =>
               \A o \in run.output : o.result # {} /\ o.error = {}

\* ---------------------------------------------------------------- C35
\* C35: whenever a batch is pending the turn is in flight: isLoading is true
\* in every state in which pendingToolCalls is not empty.
C35_PendingImpliesLoading == pendingToolCalls # << >> => isLoading

\* ---------------------------------------------------------------- C36
IsConversational(m) == m.type \in {"user", "assistant"}

\* the displayed messages after the welcome message, user and assistant
\* messages only, as role/content entries
Displayed ==
    LET kept == SelectSeq(Tail(messages), IsConversational) IN
    [i \in 1..Len(kept) |-> [role |-> kept[i].type, content |-> kept[i].content]]

\* C36: the conversation history is the displayed message list without the
\* welcome message, restricted to user and assistant messages: the same
\* entries in the same order; no entry of the history is an error message.
C36_HistoryMirrorsMessages ==
    /\ messages # << >>
    /\ messages[1] = createWelcomeMessage
    /\ conversationHistory = Displayed
    /\ \A i \in 1..Len(conversationHistory) :
           /\ conversationHistory[i].role \in {"user", "assistant"}
           /\ Head(conversationHistory[i].content) # "Error: "

\* an error message is displayed between entries that are in the history
C36_Witness ==
    \E i \in 2..Len(messages) - 1 :
        /\ messages[i].type = "error"
        /\ messages[Len(messages)].type = "assistant"
        /\ Len(conversationHistory) >= 3

\* ---------------------------------------------------------------- C37
\* C37: every call in pendingToolCalls has an entry for its callId in the
\* callback table, and no member of an approved batch has met a missing
\* callback.
C37_PendingHaveCallbacks ==
    /\ \A i \in 1..Len(pendingToolCalls) :
           pendingToolCalls[i].callId \in DOMAIN pendingCallbacks
    /\ \A a \in 1..Len(approvals) : \A i \in 1..Len(approvals[a].results) :
           approvals[a].results[i].value # <<"No callback found">>

\* ---------------------------------------------------------------- C38
IsToolName(word) == word \in Registry \cup {"editTool"}

\* the tool names of the result entries of a prompt, in the order they
\* appear in
NamesIn(prompt) == SelectSeq(prompt, IsToolName)

\* C38: the result entries of the follow-up prompt of an approved batch are
\* in the order of the calls of the batch, whichever member settled first;
\* a member that settles fills the place of its own call and no other.
C38_BatchOrder ==
    [][\A a \in 1..Len(approvals) :
          /\ (Joined(a) /\ approvals'[a].pc = "generate") =>
                 /\ Len(approvals'[a].prompts) = 1
                 /\ NamesIn(approvals'[a].prompts[1]) =
                        [i \in 1..Len(approvals[a].calls) |->
                            approvals[a].calls[i].toolName]
          /\ (approvals[a].pc = "tools" /\ approvals'[a].pc = "tools") =>
                 /\ approvals'[a].calls = approvals[a].calls
                 /\ Cardinality({i \in 1..Len(approvals[a].results) :
                        approvals'[a].results[i] # approvals[a].results[i]}) <= 1]_vars

\* the follow-up call of a batch of two different tools has been made
C38_Witness ==
    \E a \in 1..Len(approvals) :
        /\ approvals[a].pc = "generate"
        /\ Len(approvals[a].calls) = 2
        /\ approvals[a].calls[1].toolName # approvals[a].calls[2].toolName
        /\ Len(NamesIn(approvals[a].prompts[1])) = 2

\* ---------------------------------------------------------------- C34
Idle == ~isLoading /\ pendingToolCalls = << >>

\* C34: when every awaited call settles and the user decides on every batch
\* shown, a session that is not idle (a submission was accepted, or tool
\* calls are pending) leads to the idle state (isLoading false and no
\* pending tool call), unless the user has ended the process.
C34_EventuallyIdle == ~Idle ~> (Idle \/ exited)

\* the session is idle after a turn whose batch was approved and resolved
C34_Witness ==
    /\ Idle
    /\ \E t \in 1..Len(turns) : turns[t].pc = "done"
    /\ \E a \in 1..Len(approvals) : approvals[a].approve /\ approvals[a].pc = "done"
====
